---- MODULE Spec2Model ----
(***************************************************************************)
(* gpu-alloc, src/block.rs: the MemoryBlock entity and its host-mapping    *)
(* state machine.  One block is shared by several threads that call map,   *)
(* unmap, write_bytes and read_bytes on it; every access to the atomic     *)
(* `mapped` and every device call is one step of the calling thread.       *)
(***************************************************************************)
EXTENDS Integers, Sequences, FiniteSets, TLC

\* ------------------------------------------------------------------ bounds
NThreads == 2        \* threads sharing the block
MaxSize == 2         \* largest block size (bytes)
MaxAtomBits == 1     \* largest atom size 2^MaxAtomBits
MaxCalls == 3        \* calls issued by the sequential driver
AddrBits == 7        \* modelled width of the u64 address arithmetic

Threads == 1..NThreads

\* --------------------------------------------------------- state constants
MAPPING_STATE_UNMAPPED == 0
MAPPING_STATE_MAPPING == 1
MAPPING_STATE_MAPPED == 2
MAPPING_STATE_UNMAPPING == 3

None == -1

HOST_VISIBLE == "HOST_VISIBLE"
HOST_COHERENT == "HOST_COHERENT"
MemoryPropertyFlags == SUBSET {HOST_VISIBLE, HOST_COHERENT}

\* MemoryBlockFlavor: Dedicated, or Linear/Buddy with an optional resident
\* host pointer (ptr is "None" for Dedicated, which has no such field).
MemoryBlockFlavor ==
    {[kind |-> "Dedicated", ptr |-> "None"]} \cup
    [kind : {"Linear", "Buddy"}, ptr : {"Some", "None"}]

\* Errors of the device's map_memory and of flush/invalidate.
DeviceMapError == {"MapFailed"}
OutOfMemory == {"OutOfDeviceMemory"}

\* `err.into()`: the MapError variant derived from a device error.
MapErrorFrom(err) ==
    CASE err = "OutOfDeviceMemory" -> "OutOfDeviceMemory"
      [] err = "OutOfHostMemory" -> "OutOfHostMemory"
      [] err = "MapFailed" -> "MapFailed"

\* --------------------------------------------------- alignment arithmetic
Pow2(n) == 2 ^ n
AddrMax == Pow2(AddrBits) - 1

RECURSIVE BitAndN(_, _, _)
BitAndN(a, b, n) ==
    IF n = 0 THEN 0
    ELSE (IF a % 2 = 1 /\ b % 2 = 1 THEN 1 ELSE 0)
         + 2 * BitAndN(a \div 2, b \div 2, n - 1)

BitAnd(a, b) == BitAndN(a, b, AddrBits)
BitNot(a) == AddrMax - a

\* value & !align_mask
align_down(value, align_mask) == BitAnd(value, BitNot(align_mask))

\* Some(value.checked_add(align_mask)? & !align_mask)
align_up(value, align_mask) ==
    IF value + align_mask > AddrMax THEN None
    ELSE BitAnd(value + align_mask, BitNot(align_mask))

\* ------------------------------------------------------------------ state
VARIABLES
    block,      \* immutable fields of the MemoryBlock
    mapped,     \* MemoryBlock.mapped : AtomicU8
    dev_mapped, \* the device has the block's memory object host-mapped
    th,         \* per thread: position in its current call, locals, result
    lease,      \* threads whose map returned Ok and whose own unmap has
                \* not returned true since
    stolen,     \* some unmap call was issued by a thread without the lease
    log,        \* per thread: calls completed under the sequential driver
    owner       \* the leak guard `relevant`, the leak reports made, and
                \* what deallocate returned

vars == <<block, mapped, dev_mapped, th, lease, stolen, log, owner>>

Ops == {"map", "unmap", "write_bytes", "read_bytes"}

IdleThread ==
    [pc |-> "idle", op |-> "none", offset |-> 0, size |-> 0,
     ptr |-> "None", result |-> "none", ret |-> "none", steps |-> <<>>,
     ranges |-> <<>>]

\* MemoryBlock::new: the block as the allocator hands it out.  Host-coherent
\* memory is host-visible; the allocator gives a Linear/Buddy block a
\* resident pointer exactly when its memory is host-visible.  The block
\* starts at the parent's start or one largest atom into it, has the
\* smallest or the largest size, and the smallest or the largest atom.
Blocks ==
    {b \in [flavor : MemoryBlockFlavor, props : MemoryPropertyFlags,
            offset : {0, Pow2(MaxAtomBits)},
            size : {1, MaxSize},
            atom_mask : {0, Pow2(MaxAtomBits) - 1}] :
        /\ HOST_COHERENT \in b.props => HOST_VISIBLE \in b.props
        /\ b.flavor.kind # "Dedicated" =>
              (b.flavor.ptr = "Some" <=> HOST_VISIBLE \in b.props)}

\* The native memory object the block is carved from.
Memory == "memory"

\* What Relevant::drop does, by build: tracing::error!, eprintln! or
\* panic!.
LeakReports == {"tracing::error", "eprintln", "panic"}

new(b) ==
    /\ block = b
    /\ mapped = MAPPING_STATE_UNMAPPED
    /\ dev_mapped = FALSE
    /\ owner = [relevant |-> "armed", reports |-> <<>>, returned |-> <<>>]

\* Variant: deallocate without the mem::forget, so that the guard is
\* dropped with the rest of the block.
deallocate_drop(o, b) ==
    [o EXCEPT !.relevant = "dropped",
              !.reports = Append(@, "eprintln"),
              !.returned = <<[memory |-> Memory, flavor |-> b.flavor]>>]

\* MemoryBlock::deallocate: core::mem::forget(self.relevant);
\* (self.memory, self.flavor).
deallocate(o, b) ==
    [o EXCEPT !.relevant = "forgotten",
              !.returned = <<[memory |-> Memory, flavor |-> b.flavor]>>]

\* Relevant::drop, run when a block is dropped with its guard in place.
drop(o, report) ==
    [o EXCEPT !.relevant = "dropped", !.reports = Append(@, report)]

coherent == HOST_COHERENT \in block.props

\* Variant: the requested range as it is, without the alignment.
DeviceRange_unaligned(b, off, len) ==
    [offset |-> b.offset + off, size |-> len]

\* The range map, write_bytes and read_bytes pass to the device for the
\* bytes [off, off + len) of block b: from self.offset + aligned_offset,
\* end - aligned_offset bytes.
DeviceRange(b, off, len) ==
    LET aligned_offset == align_down(off, b.atom_mask)
        end == align_up(off + len, b.atom_mask)
    IN [offset |-> b.offset + aligned_offset, size |-> end - aligned_offset]

\* The device call `name`, with its range, as thread record r issues it.
Issue(r, name) ==
    [r EXCEPT !.steps = Append(@, name),
              !.ranges = Append(@, [call |-> name] @@
                                   DeviceRange(block, r.offset, r.size))]

\* ------------------------------------------- the mapping state machine
\* AtomicU8::compare_exchange on a value m: whether it succeeded, and the
\* value it leaves behind.
compare_exchange(m, current, desired) ==
    [ok |-> m = current, val |-> IF m = current THEN desired ELSE m]

\* Variant: a plain store in place of the compare-exchange.
acquire_mapping_store(m) == [ok |-> TRUE, val |-> MAPPING_STATE_MAPPED]

acquire_mapping(m) ==
    compare_exchange(m, MAPPING_STATE_UNMAPPED, MAPPING_STATE_MAPPED)

\* Variant: a plain store in place of the compare-exchange.
start_mapping_store(m) == [ok |-> TRUE, val |-> MAPPING_STATE_MAPPING]

start_mapping(m) ==
    compare_exchange(m, MAPPING_STATE_UNMAPPED, MAPPING_STATE_MAPPING)

end_mapping(m) == MAPPING_STATE_MAPPED

\* Variant: the failure path leaves the claim in place.
mapping_failed_skip(m) == m

mapping_failed(m) == MAPPING_STATE_UNMAPPED

\* Variant: the claim of unmap succeeds from every state but Unmapped.
start_unmapping_loose(m) ==
    [ok |-> m # MAPPING_STATE_UNMAPPED,
     val |-> IF m # MAPPING_STATE_UNMAPPED THEN MAPPING_STATE_UNMAPPING
             ELSE m]

start_unmapping(m) ==
    compare_exchange(m, MAPPING_STATE_MAPPED, MAPPING_STATE_UNMAPPING)

\* Variant: the completion of unmap stores Mapped.
end_unmapping_mapped(m) == MAPPING_STATE_MAPPED

\* Variant: the completion of unmap leaves the state as it finds it.
end_unmapping_skip(m) == m

end_unmapping(m) == MAPPING_STATE_UNMAPPED

\* ------------------------------------------------------- calls and returns
\* A thread enters a call: map, write_bytes and read_bytes all begin in
\* map; unmap begins at its compare-exchange.
Enter(t, o, off, sz) ==
    /\ owner.relevant = "armed"
    /\ th[t].pc = "idle"
    /\ th' = [th EXCEPT ![t] =
                [pc |-> IF o = "unmap" THEN "unmap" ELSE "map",
                 op |-> o, offset |-> off, size |-> sz, ptr |-> "None",
                 result |-> "none", ret |-> "none", steps |-> <<>>,
                 ranges |-> <<>>]]
    /\ stolen' = (stolen \/ (o = "unmap" /\ t \notin lease))
    /\ UNCHANGED <<block, owner, mapped, dev_mapped, lease>>

\* Variant: a map that lost the compare-exchange tries it again.
AfterMap_retry(r, ev, res) ==
    LET s == [r EXCEPT !.steps = Append(@, ev),
                       !.ptr = IF res = "Ok" THEN "Some" ELSE "None"] IN
    IF res = "AlreadyMapped"
    THEN [s EXCEPT !.pc = "map"]
    ELSE IF r.op = "map" \/ res # "Ok"
    THEN [s EXCEPT !.pc = "idle", !.ret = res]
    ELSE IF r.op = "write_bytes"
    THEN [s EXCEPT !.pc = "copy"]
    ELSE IF ~coherent
    THEN [s EXCEPT !.pc = "invalidate_memory_ranges"]
    ELSE [s EXCEPT !.pc = "copy", !.result = "Ok"]

\* Variant: write_bytes and read_bytes go on whatever map returned.
AfterMap_unchecked(r, ev, res) ==
    LET s == [r EXCEPT !.steps = Append(@, ev),
                       !.ptr = IF res = "Ok" THEN "Some" ELSE "None"] IN
    IF r.op = "map"
    THEN [s EXCEPT !.pc = "idle", !.ret = res]
    ELSE IF r.op = "write_bytes"
    THEN [s EXCEPT !.pc = "copy"]
    ELSE IF ~coherent
    THEN [s EXCEPT !.pc = "invalidate_memory_ranges"]
    ELSE [s EXCEPT !.pc = "copy", !.result = "Ok"]

\* The thread record after `self.map(..)` has produced res, having taken
\* the step named ev: map itself returns res; write_bytes and read_bytes
\* return the error (the `?`) or go on to their copy / invalidate.
AfterMap(r, ev, res) ==
    LET s == [r EXCEPT !.steps = Append(@, ev),
                       !.ptr = IF res = "Ok" THEN "Some" ELSE "None"] IN
    IF r.op = "map" \/ res # "Ok"
    THEN [s EXCEPT !.pc = "idle", !.ret = res]
    ELSE IF r.op = "write_bytes"
    THEN [s EXCEPT !.pc = "copy"]
    ELSE IF ~coherent
    THEN [s EXCEPT !.pc = "invalidate_memory_ranges"]
    ELSE [s EXCEPT !.pc = "copy", !.result = "Ok"]

\* The thread record after `self.unmap(..)` has produced b: unmap itself
\* returns b; write_bytes and read_bytes drop b and return
\* result.map_err(Into::into).
AfterUnmap(r, ev, b) ==
    LET s == [r EXCEPT !.steps = Append(@, ev)] IN
    IF r.op = "unmap"
    THEN [s EXCEPT !.pc = "idle", !.ret = b]
    ELSE [s EXCEPT !.pc = "idle",
                   !.ret = IF r.result = "Ok" THEN "Ok"
                           ELSE MapErrorFrom(r.result)]

\* ---------------------------------------------------------------- map
\* Variant: a Linear/Buddy block takes the resident arm with or without
\* a pointer.
MapPath_unchecked(fl) ==
    IF fl.kind = "Dedicated" THEN "device" ELSE "resident"

\* `match self.flavor`: the arm of map a flavor selects.
MapPath(fl) ==
    IF fl.kind = "Dedicated" THEN "device"
    ELSE IF fl.ptr = "Some" THEN "resident"
    ELSE "none"

\* The outcome of map up to and including its compare-exchange, for the
\* block b, the state m and the arguments: the panics of the argument
\* checks, the flavor dispatch, and the claim of the state.
MapClaim(b, m, off, sz) ==
    IF ~(off < b.size) \/ ~(sz <= b.size - off)
    THEN [res |-> "panic", val |-> m, ev |-> "assert"]
    ELSE IF MapPath(b.flavor) = "device"
    THEN IF align_up(off + sz, b.atom_mask) = None
         THEN [res |-> "panic", val |-> m, ev |-> "expect"]
         ELSE IF ~start_mapping(m).ok
         THEN [res |-> "AlreadyMapped", val |-> start_mapping(m).val,
               ev |-> "start_mapping"]
         ELSE [res |-> "claimed", val |-> start_mapping(m).val,
               ev |-> "start_mapping"]
    ELSE IF MapPath(b.flavor) = "resident"
    THEN IF ~acquire_mapping(m).ok
         THEN [res |-> "AlreadyMapped", val |-> acquire_mapping(m).val,
               ev |-> "acquire_mapping"]
         ELSE [res |-> "Ok", val |-> acquire_mapping(m).val,
               ev |-> "acquire_mapping"]
    ELSE [res |-> "NonHostVisible", val |-> m, ev |-> "dispatch"]

\* map, from its entry to the return or to the device call.
MapBegin(t) ==
    /\ th[t].pc = "map"
    /\ LET c == MapClaim(block, mapped, th[t].offset, th[t].size) IN
        /\ mapped' = c.val
        /\ th' = [th EXCEPT ![t] =
                    IF c.res = "claimed"
                    THEN [@ EXCEPT !.pc = "map_memory",
                                   !.steps = Append(@, c.ev)]
                    ELSE AfterMap(@, c.ev, c.res)]
        /\ lease' = IF c.res = "Ok" THEN lease \cup {t} ELSE lease
    /\ UNCHANGED <<block, owner, dev_mapped, stolen, log>>

\* device.map_memory(&self.memory, self.offset + aligned_offset,
\* end - aligned_offset): the device maps the range or reports an error.
MapMemory(t) ==
    /\ th[t].pc = "map_memory"
    /\ \E result \in {"Ok"} \cup DeviceMapError :
        /\ dev_mapped' = (IF result = "Ok" THEN TRUE ELSE dev_mapped)
        /\ th' = [th EXCEPT ![t] =
                    [Issue(@, "map_memory") EXCEPT
                        !.pc = IF result = "Ok" THEN "end_mapping"
                               ELSE "mapping_failed",
                        !.result = result]]
    /\ UNCHANGED <<block, owner, mapped, lease, stolen, log>>

\* Ok(ptr) => self.end_mapping(); map returns the adjusted pointer.
EndMapping(t) ==
    /\ th[t].pc = "end_mapping"
    /\ mapped' = end_mapping(mapped)
    /\ th' = [th EXCEPT ![t] = AfterMap(@, "end_mapping", "Ok")]
    /\ lease' = lease \cup {t}
    /\ UNCHANGED <<block, owner, dev_mapped, stolen, log>>

\* Err(err) => self.mapping_failed(); return Err(err.into()).
MappingFailed(t) ==
    /\ th[t].pc = "mapping_failed"
    /\ mapped' = mapping_failed(mapped)
    /\ th' = [th EXCEPT ![t] =
                AfterMap(@, "mapping_failed", MapErrorFrom(@.result))]
    /\ UNCHANGED <<block, owner, dev_mapped, lease, stolen, log>>

\* -------------------------------------------------------------- unmap
\* if !self.start_unmapping() { return false; }
UnmapBegin(t) ==
    /\ th[t].pc = "unmap"
    /\ LET c == start_unmapping(mapped) IN
        /\ mapped' = c.val
        /\ th' = [th EXCEPT ![t] =
                    IF ~c.ok
                    THEN AfterUnmap(@, "start_unmapping", "false")
                    ELSE [@ EXCEPT !.pc = IF block.flavor.kind = "Dedicated"
                                          THEN "unmap_memory"
                                          ELSE "end_unmapping",
                                   !.steps = Append(@, "start_unmapping")]]
    /\ UNCHANGED <<block, owner, dev_mapped, lease, stolen, log>>

\* Dedicated => device.unmap_memory(&self.memory)
UnmapMemory(t) ==
    /\ th[t].pc = "unmap_memory"
    /\ dev_mapped' = FALSE
    /\ th' = [th EXCEPT ![t] =
                [@ EXCEPT !.pc = "end_unmapping",
                          !.steps = Append(@, "unmap_memory")]]
    /\ UNCHANGED <<block, owner, mapped, lease, stolen, log>>

\* self.end_unmapping(); true
EndUnmapping(t) ==
    /\ th[t].pc = "end_unmapping"
    /\ mapped' = end_unmapping(mapped)
    /\ th' = [th EXCEPT ![t] = AfterUnmap(@, "end_unmapping", "true")]
    /\ lease' = lease \ {t}
    /\ UNCHANGED <<block, owner, dev_mapped, stolen, log>>

\* ------------------------------------------- write_bytes and read_bytes
\* Where write_bytes goes after its copy: to the flush on non-coherent
\* memory, else straight to unmap with result = Ok(()).
AfterWriteCopy(r, coh) ==
    IF ~coh
    THEN [r EXCEPT !.pc = "flush_memory_ranges"]
    ELSE [r EXCEPT !.pc = "unmap", !.result = "Ok"]

\* Variant: the copy is made whatever the invalidate returned.
AfterInvalidate_copy(r, result) ==
    [r EXCEPT !.pc = "copy", !.result = result]

\* Where read_bytes goes after its invalidate: to the copy if
\* result.is_ok(), else straight to unmap.
AfterInvalidate(r, result) ==
    [r EXCEPT !.pc = IF result = "Ok" THEN "copy" ELSE "unmap",
              !.result = result]

\* Variant: a failed flush returns its error at once (`?` on the flush).
AfterFlush_early(r, result) ==
    IF result = "Ok"
    THEN [r EXCEPT !.pc = "unmap", !.result = result]
    ELSE [r EXCEPT !.pc = "idle", !.result = result,
                   !.ret = MapErrorFrom(result)]

\* Where write_bytes goes after its flush: always to unmap, keeping the
\* flush result for the return.
AfterFlush(r, result) ==
    [r EXCEPT !.pc = "unmap", !.result = result]

\* copy_nonoverlapping: into the mapped range (write_bytes) or out of it
\* into the caller's buffer (read_bytes).
Copy(t) ==
    /\ th[t].pc = "copy"
    /\ th' = [th EXCEPT ![t] =
                LET s == [@ EXCEPT !.steps = Append(@, "copy")] IN
                IF @.op = "write_bytes"
                THEN AfterWriteCopy(s, coherent)
                ELSE [s EXCEPT !.pc = "unmap"]]
    /\ UNCHANGED <<block, owner, mapped, dev_mapped, lease, stolen, log>>

\* device.flush_memory_ranges(..) of write_bytes on non-coherent memory.
FlushMemoryRanges(t) ==
    /\ th[t].pc = "flush_memory_ranges"
    /\ \E result \in {"Ok"} \cup OutOfMemory :
        th' = [th EXCEPT ![t] =
                 AfterFlush(Issue(@, "flush_memory_ranges"), result)]
    /\ UNCHANGED <<block, owner, mapped, dev_mapped, lease, stolen, log>>

\* device.invalidate_memory_ranges(..) of read_bytes on non-coherent memory.
InvalidateMemoryRanges(t) ==
    /\ th[t].pc = "invalidate_memory_ranges"
    /\ \E result \in {"Ok"} \cup OutOfMemory :
        th' = [th EXCEPT ![t] =
                 AfterInvalidate(Issue(@, "invalidate_memory_ranges"),
                                 result)]
    /\ UNCHANGED <<block, owner, mapped, dev_mapped, lease, stolen, log>>

\* ------------------------------------------------------------- callers
\* Arguments a caller passes to map / write_bytes / read_bytes on block b:
\* every (offset, size) inside the block, one offset at the end of the
\* block and one size past it, so that both argument checks of map can fail.
Args(b) ==
    {a \in (0..MaxSize) \X (0..MaxSize) : a[1] < b.size /\ a[2] <= b.size - a[1]}
    \cup {<<b.size, 0>>, <<0, b.size + 1>>}

\* Arguments that pass both argument checks of map.
InBounds(off, sz) == off < block.size /\ sz <= block.size - off

\* The arguments of the concurrent callers: one pair inside the block and
\* one past its end.
ConcArgs == {<<0, 1>>, <<block.size, 1>>}

\* The owner hands the block back to the allocator, or lets it go out of
\* scope; either takes the block by value, so no call is in progress.
Deallocate ==
    /\ owner.relevant = "armed"
    /\ \A t \in Threads : th[t].pc = "idle"
    /\ owner' = deallocate(owner, block)
    /\ UNCHANGED <<block, mapped, dev_mapped, th, lease, stolen, log>>

DropBlock ==
    /\ owner.relevant = "armed"
    /\ \A t \in Threads : th[t].pc = "idle"
    /\ \E report \in LeakReports : owner' = drop(owner, report)
    /\ UNCHANGED <<block, mapped, dev_mapped, th, lease, stolen, log>>

\* Any thread may issue any call at any time.
Call(t) ==
    /\ \/ \E o \in Ops \ {"unmap"} : \E a \in ConcArgs :
            Enter(t, o, a[1], a[2])
       \/ Enter(t, "unmap", 0, 0)
    /\ UNCHANGED log

\* Threads that call only write_bytes and read_bytes.
TransientCall(t) ==
    /\ \E o \in {"write_bytes", "read_bytes"} : \E a \in ConcArgs :
            Enter(t, o, a[1], a[2])
    /\ UNCHANGED log

\* The race of the map calls: every thread calls map once, with arguments
\* inside the block, and no thread calls anything else.
RaceCall(t) ==
    /\ th[t].op = "none"
    /\ \E a \in Args(block) :
        /\ InBounds(a[1], a[2])
        /\ Enter(t, "map", a[1], a[2])
    /\ UNCHANGED log

\* The sequential driver: the first thread alone issues up to MaxCalls
\* calls, one after the other, all with the arguments drawn at the start,
\* and stops at a panic; each completed call is filed in log with the state
\* it left behind.
Driver == CHOOSE t \in Threads : \A u \in Threads : t <= u

SeqCall(t) ==
    /\ t = Driver
    /\ th[t].ret # "panic"
    /\ Len(log[t]) + (IF th[t].op = "none" THEN 0 ELSE 1) < MaxCalls
    /\ \E o \in Ops : Enter(t, o, th[t].offset, th[t].size)
    /\ log' = [log EXCEPT ![t] =
                 IF th[t].op = "none" THEN @
                 ELSE Append(@, [call |-> th[t], mapped |-> mapped])]

Step(t) ==
    \/ MapBegin(t)
    \/ MapMemory(t)
    \/ EndMapping(t)
    \/ MappingFailed(t)
    \/ UnmapBegin(t)
    \/ UnmapMemory(t)
    \/ EndUnmapping(t)
    \/ Copy(t)
    \/ FlushMemoryRanges(t)
    \/ InvalidateMemoryRanges(t)

MapStep(t) ==
    \/ MapBegin(t)
    \/ MapMemory(t)
    \/ EndMapping(t)
    \/ MappingFailed(t)

\* The blocks of the concurrent specifications: one byte range, every
\* flavor and every combination of property flags.
ConcBlocks == {b \in Blocks : b.offset = 0 /\ b.size = 1 /\ b.atom_mask = 0}

InitWith(b) ==
    /\ new(b)
    /\ lease = {}
    /\ stolen = FALSE
    /\ log = [t \in Threads |-> <<>>]

Init ==
    /\ \E b \in ConcBlocks : InitWith(b)
    /\ th = [t \in Threads |-> IdleThread]

InitSeq ==
    \E b \in Blocks : \E a \in Args(b) :
        /\ InitWith(b)
        /\ th = [t \in Threads |->
                   IF t = Driver
                   THEN [IdleThread EXCEPT !.offset = a[1], !.size = a[2]]
                   ELSE IdleThread]

Next ==
    \/ \E t \in Threads : Call(t) \/ Step(t)
    \/ Deallocate
    \/ DropBlock

NextRace == \E t \in Threads : RaceCall(t) \/ MapStep(t)

NextTransient == \E t \in Threads : TransientCall(t) \/ Step(t)

NextSeq == \E t \in Threads : SeqCall(t) \/ Step(t)

\* Threads calling map, unmap, write_bytes and read_bytes concurrently.
Spec == Init /\ [][Next]_vars

\* Threads racing to map the block, one map call each.
SpecRace == Init /\ [][NextRace]_vars

\* Threads calling only write_bytes and read_bytes.
SpecTransient == Init /\ [][NextTransient]_vars

\* One thread issuing a sequence of calls.
SpecSeq == InitSeq /\ [][NextSeq]_vars

\* ------------------------------------------------------------ properties
\* The block has a mapping path: Dedicated, or Linear/Buddy with a
\* resident pointer.
HasMappingPath == MapPath(block.flavor) # "none"

\* The MapError variants derived from device errors.
DeviceErrors == {MapErrorFrom(e) : e \in DeviceMapError \cup OutOfMemory}

\* C1 (as stated): for one block of any flavor, under every interleaving
\* of map and unmap calls by two or more threads, at no point do two
\* threads hold the mapped lease at the same time.
LeaseExclusive == Cardinality(lease) <= 1

\* C1 (amended): as long as every unmap call has been issued by a thread
\* that held the lease when it called, at no point do two threads hold the
\* mapped lease at the same time.
LeaseExclusiveOwned == ~stolen => Cardinality(lease) <= 1

\* One thread holds the lease and another thread's map was turned away,
\* with no unmap by a thread without the lease so far.
LeaseContended ==
    /\ ~stolen
    /\ \E t \in lease : \E u \in Threads \ {t} :
        /\ th[u].pc = "idle"
        /\ th[u].op = "map"
        /\ th[u].ret = "AlreadyMapped"

\* Every thread has called map once and has returned.
RaceDone == \A t \in Threads : th[t].op = "map" /\ th[t].pc = "idle"

Winners == {t \in Threads : th[t].ret = "Ok"}

\* C2 (as stated): on a block with a mapping path, when every thread calls
\* map once and no unmap is called, exactly one call returns Ok and every
\* other call returns AlreadyMapped, whatever the device's map_memory does.
RaceOneWinner ==
    (RaceDone /\ HasMappingPath) =>
        /\ Cardinality(Winners) = 1
        /\ \A t \in Threads \ Winners : th[t].ret = "AlreadyMapped"

\* C2 (amended): on a block with a mapping path, when every thread calls
\* map once with in-bounds arguments and no unmap is called, at most one
\* call returns Ok and every other call returns AlreadyMapped or the error
\* of a failed map_memory; when no map_memory call failed, exactly one
\* call returns Ok and every other call returns AlreadyMapped.
RaceAtMostOneWinner ==
    (RaceDone /\ HasMappingPath) =>
        /\ Cardinality(Winners) <= 1
        /\ \A t \in Threads \ Winners :
              th[t].ret \in {"AlreadyMapped"} \cup DeviceErrors
        /\ (\A t \in Threads : th[t].ret \notin DeviceErrors) =>
              /\ Cardinality(Winners) = 1
              /\ \A t \in Threads \ Winners : th[t].ret = "AlreadyMapped"

\* The race is over with one winner and a loser that saw AlreadyMapped.
RaceDecided ==
    /\ RaceDone
    /\ HasMappingPath
    /\ Cardinality(Winners) = 1
    /\ \E t \in Threads : th[t].ret = "AlreadyMapped"

\* The calls the sequential driver has completed, oldest first, each with
\* the mapping state it left behind.
Calls ==
    log[Driver] \o
    (IF th[Driver].pc = "idle" /\ th[Driver].op # "none"
     THEN <<[call |-> th[Driver], mapped |-> mapped]>>
     ELSE <<>>)

\* The mapping state the driver's i-th call started from.
StateBefore(i) ==
    IF i = 1 THEN MAPPING_STATE_UNMAPPED ELSE Calls[i - 1].mapped

\* The device's map_memory did not fail in call c.
DeviceMapOk(c) == c.result \notin DeviceMapError

\* The steps of a successful map and of a successful unmap on the block.
MapSteps ==
    IF MapPath(block.flavor) = "device"
    THEN <<"start_mapping", "map_memory", "end_mapping">>
    ELSE <<"acquire_mapping">>

UnmapSteps ==
    IF block.flavor.kind = "Dedicated"
    THEN <<"start_unmapping", "unmap_memory", "end_unmapping">>
    ELSE <<"start_unmapping", "end_unmapping">>

\* The result write_bytes / read_bytes return for a flush / invalidate
\* result: its error if it failed, Ok otherwise.
Returned(result) == IF result = "Ok" THEN "Ok" ELSE MapErrorFrom(result)

\* C3: on a block with a mapping path, for in-bounds (offset, size), with
\* one thread acting and the device's map_memory succeeding, a map that
\* starts from Unmapped returns Ok, the unmap that follows returns true and
\* leaves the state Unmapped, and a second map with the same arguments
\* returns Ok again.
RoundTrip ==
    \A i \in 1..Len(Calls) :
        LET c == Calls[i].call IN
        (/\ HasMappingPath
         /\ InBounds(c.offset, c.size)
         /\ StateBefore(i) = MAPPING_STATE_UNMAPPED
         /\ c.op = "map"
         /\ DeviceMapOk(c)) =>
            /\ c.ret = "Ok"
            /\ (i + 1 <= Len(Calls) /\ Calls[i + 1].call.op = "unmap") =>
                /\ Calls[i + 1].call.ret = "true"
                /\ Calls[i + 1].mapped = MAPPING_STATE_UNMAPPED
                /\ (/\ i + 2 <= Len(Calls)
                    /\ Calls[i + 2].call.op = "map"
                    /\ Calls[i + 2].call.offset = c.offset
                    /\ Calls[i + 2].call.size = c.size
                    /\ DeviceMapOk(Calls[i + 2].call)) =>
                        Calls[i + 2].call.ret = "Ok"

\* map, unmap, map with the same in-bounds arguments at a non-zero offset
\* has run to the end: Ok, true, Ok.
RoundTripDone ==
    /\ Len(Calls) >= 3
    /\ HasMappingPath
    /\ Calls[1].call.op = "map" /\ Calls[1].call.ret = "Ok"
    /\ Calls[1].call.offset > 0
    /\ Calls[2].call.op = "unmap" /\ Calls[2].call.ret = "true"
    /\ Calls[3].call.op = "map" /\ Calls[3].call.ret = "Ok"
    /\ Calls[3].call.offset = Calls[1].call.offset
    /\ Calls[3].call.size = Calls[1].call.size

\* Call c is a map on a Dedicated block that claimed Mapping and whose
\* map_memory failed.
DeviceMapFailed(c) ==
    /\ block.flavor.kind = "Dedicated"
    /\ c.op = "map"
    /\ c.result \in DeviceMapError

\* C4: when map on a Dedicated block has claimed Mapping and map_memory
\* fails, map returns the error derived from the device's (not
\* AlreadyMapped, not NonHostVisible), the state is back to Unmapped, and
\* a later map call claims the block and returns Ok if the device then
\* succeeds.
RollbackOnFailure ==
    \A i \in 1..Len(Calls) :
        LET c == Calls[i].call IN
        DeviceMapFailed(c) =>
            /\ c.ret = MapErrorFrom(c.result)
            /\ c.ret \notin {"AlreadyMapped", "NonHostVisible", "Ok"}
            /\ Calls[i].mapped = MAPPING_STATE_UNMAPPED
            /\ (/\ i + 1 <= Len(Calls)
                /\ Calls[i + 1].call.op = "map"
                /\ InBounds(Calls[i + 1].call.offset, Calls[i + 1].call.size)
                /\ DeviceMapOk(Calls[i + 1].call)) =>
                    Calls[i + 1].call.ret = "Ok"

\* A map whose map_memory failed was followed by a map that succeeded.
RolledBackAndRetried ==
    /\ Len(Calls) >= 2
    /\ DeviceMapFailed(Calls[1].call)
    /\ Calls[2].call.op = "map"
    /\ Calls[2].call.ret = "Ok"

\* C9: a write_bytes whose map succeeded takes the steps map, copy, flush
\* (on non-coherent memory only), unmap, in this order, whatever the flush
\* returns; with no other thread acting the block is Unmapped when it
\* returns; it returns the flush error if the flush failed, else Ok.
WriteBytesUnmaps ==
    \A i \in 1..Len(Calls) :
        LET c == Calls[i].call IN
        (c.op = "write_bytes" /\ c.ptr = "Some") =>
            /\ c.steps = MapSteps \o <<"copy">>
                         \o (IF coherent THEN <<>>
                             ELSE <<"flush_memory_ranges">>)
                         \o UnmapSteps
            /\ Calls[i].mapped = MAPPING_STATE_UNMAPPED
            /\ c.result \in {"Ok"} \cup OutOfMemory
            /\ c.ret = Returned(c.result)

\* A write_bytes whose flush failed has returned.
WriteFlushFailed ==
    \E i \in 1..Len(Calls) :
        /\ Calls[i].call.op = "write_bytes"
        /\ Calls[i].call.ptr = "Some"
        /\ Calls[i].call.result \in OutOfMemory
        /\ Calls[i].call.ret \in DeviceErrors
        /\ Calls[i].mapped = MAPPING_STATE_UNMAPPED

\* C10: a read_bytes whose map succeeded, on non-coherent memory, calls
\* invalidate_memory_ranges before any copy and copies only if the
\* invalidate succeeded; on coherent memory it copies without an
\* invalidate; it calls unmap in every case and returns the invalidate
\* error if there was one, else Ok.
ReadBytesInvalidatesFirst ==
    \A i \in 1..Len(Calls) :
        LET c == Calls[i].call IN
        (c.op = "read_bytes" /\ c.ptr = "Some") =>
            /\ c.steps = MapSteps
                         \o (IF coherent THEN <<>>
                             ELSE <<"invalidate_memory_ranges">>)
                         \o (IF c.result = "Ok" THEN <<"copy">> ELSE <<>>)
                         \o UnmapSteps
            /\ c.result \in {"Ok"} \cup OutOfMemory
            /\ c.ret = Returned(c.result)
            /\ Calls[i].mapped = MAPPING_STATE_UNMAPPED

\* A read_bytes whose invalidate failed has returned, having copied
\* nothing.
ReadInvalidateFailed ==
    \E i \in 1..Len(Calls) :
        /\ Calls[i].call.op = "read_bytes"
        /\ Calls[i].call.ptr = "Some"
        /\ Calls[i].call.result \in OutOfMemory
        /\ Calls[i].call.ret \in DeviceErrors
        /\ \A k \in 1..Len(Calls[i].call.steps) :
              Calls[i].call.steps[k] # "copy"

\* Thread t takes a step of its own.
Acts(t) == th'[t] # th[t]

\* Step k is among the steps thread record r has taken in its call.
Took(r, k) == \E n \in 1..Len(r.steps) : r.steps[n] = k

NoResidentPointer ==
    block.flavor.kind \in {"Linear", "Buddy"} /\ block.flavor.ptr = "None"

\* Thread t is back from a map, write_bytes or read_bytes call with
\* in-bounds arguments.
MapReturned(t) ==
    /\ th[t].pc = "idle"
    /\ th[t].op \in {"map", "write_bytes", "read_bytes"}
    /\ InBounds(th[t].offset, th[t].size)

\* C6: on a Linear or Buddy block without a resident pointer every map
\* call with in-bounds arguments returns NonHostVisible, whatever was
\* called before; map_memory is never called and the mapping state never
\* leaves Unmapped.
NoPointerNeverMaps ==
    NoResidentPointer =>
        /\ mapped = MAPPING_STATE_UNMAPPED
        /\ ~dev_mapped
        /\ \A t \in Threads :
            /\ th[t].pc # "map_memory"
            /\ ~Took(th[t], "map_memory")
            /\ MapReturned(t) => th[t].ret = "NonHostVisible"

\* On a block without a resident pointer one thread's map has returned
\* NonHostVisible after another thread's unmap returned false.
NoPointerRefused ==
    /\ NoResidentPointer
    /\ \E t \in Threads : \E u \in Threads \ {t} :
        /\ MapReturned(t) /\ th[t].op = "map"
        /\ th[t].ret = "NonHostVisible"
        /\ th[u].pc = "idle" /\ th[u].op = "unmap" /\ th[u].ret = "false"

\* C7: map on a block of any flavor whose props lack the host-visible flag
\* returns NonHostVisible without claiming the mapping state and without
\* calling map_memory.
NonHostVisibleNeverMaps ==
    (HOST_VISIBLE \notin block.props) =>
        /\ mapped = MAPPING_STATE_UNMAPPED
        /\ ~dev_mapped
        /\ \A t \in Threads :
            /\ th[t].pc # "map_memory"
            /\ MapReturned(t) => th[t].ret = "NonHostVisible"

RangesOf(c, name) ==
    {c.ranges[k] : k \in {n \in 1..Len(c.ranges) : c.ranges[n].call = name}}

\* How often thread record c took the step `name`.
Count(c, name) == Cardinality({n \in 1..Len(c.steps) : c.steps[n] = name})

\* The multiples of the atom below and above a value.
AtomFloor(v, mask) == (v \div (mask + 1)) * (mask + 1)
AtomCeil(v, mask) == ((v + mask) \div (mask + 1)) * (mask + 1)

\* C11: on non-coherent memory a write_bytes(offset, data) whose map
\* succeeded issues exactly one flush_memory_ranges, for the range that
\* starts at block.offset + align_down(offset) and has the size
\* align_up(offset + len) - align_down(offset), which covers the range
\* written; with atom_mask 63, offset 10 and len 20 that is [0, 64) from
\* the block start.  On coherent memory it issues no flush.
FlushRangeAligned ==
    /\ DeviceRange([offset |-> 0, atom_mask |-> 63], 10, 20)
         = [offset |-> 0, size |-> 64]
    /\ \A i \in 1..Len(Calls) :
        LET c == Calls[i].call IN
        (c.op = "write_bytes" /\ c.ptr = "Some") =>
            IF coherent
            THEN /\ Count(c, "flush_memory_ranges") = 0
                 /\ RangesOf(c, "flush_memory_ranges") = {}
            ELSE /\ Count(c, "flush_memory_ranges") = 1
                 /\ \A r \in RangesOf(c, "flush_memory_ranges") :
                     /\ r.offset = block.offset
                                   + AtomFloor(c.offset, block.atom_mask)
                     /\ r.size = AtomCeil(c.offset + c.size, block.atom_mask)
                                 - AtomFloor(c.offset, block.atom_mask)
                     /\ r.offset <= block.offset + c.offset
                     /\ block.offset + c.offset + c.size <= r.offset + r.size

\* A write_bytes at an offset inside an atom has flushed a range that
\* starts before the bytes written.
FlushedWiderRange ==
    \E i \in 1..Len(Calls) :
        /\ Calls[i].call.op = "write_bytes"
        /\ Calls[i].call.ptr = "Some"
        /\ \E r \in RangesOf(Calls[i].call, "flush_memory_ranges") :
            r.offset < block.offset + Calls[i].call.offset

\* C12: a block dropped without deallocate makes the leak report exactly
\* once; a block consumed by deallocate makes none and yields its (native
\* handle, flavor); the guard is armed at construction, and no step of a
\* map, unmap, read_bytes or write_bytes call arms or disarms it.
LeakGuard ==
    /\ [](/\ owner.relevant = "armed" =>
                owner.reports = <<>> /\ owner.returned = <<>>
          /\ owner.returned = <<>> =>
                (owner.relevant = "dropped" <=> Len(owner.reports) = 1)
          /\ owner.returned # <<>> =>
                /\ owner.relevant = "forgotten"
                /\ owner.reports = <<>>
                /\ owner.returned = <<[memory |-> Memory,
                                       flavor |-> block.flavor]>>
          /\ Len(owner.reports) <= 1
          /\ (\E t \in Threads : th[t].pc # "idle") =>
                owner.relevant = "armed")
    /\ [][(\E t \in Threads : Acts(t)) => owner' = owner]_vars

\* A block that had been mapped and unmapped was dropped without
\* deallocate, and the leak was reported.
LeakReported ==
    /\ owner.relevant = "dropped"
    /\ Len(owner.reports) = 1
    /\ \E t \in Threads : th[t].op = "unmap" /\ th[t].ret = "true"

\* C13 (as stated): the constructor returns the block Unmapped, and
\* whenever deallocate consumes the block, after any sequence of completed
\* calls, its mapping state is Unmapped.
DeallocatedUnmapped ==
    /\ (\A t \in Threads : th[t].op = "none") =>
            mapped = MAPPING_STATE_UNMAPPED
    /\ owner.returned # <<>> => mapped = MAPPING_STATE_UNMAPPED

\* C13 (amended): the constructor returns the block Unmapped, and whenever
\* deallocate consumes the block its mapping state is Unmapped or Mapped,
\* never Mapping or Unmapping; it is Unmapped when no thread holds the
\* lease of a map that returned Ok.
DeallocatedSettled ==
    /\ (\A t \in Threads : th[t].op = "none") =>
            mapped = MAPPING_STATE_UNMAPPED
    /\ owner.returned # <<>> =>
        /\ mapped \in {MAPPING_STATE_UNMAPPED, MAPPING_STATE_MAPPED}
        /\ lease = {} => mapped = MAPPING_STATE_UNMAPPED

\* deallocate has consumed a block that a thread had mapped and unmapped
\* and that another thread had tried to map in between.
DeallocatedAfterUse ==
    /\ owner.returned # <<>>
    /\ mapped = MAPPING_STATE_UNMAPPED
    /\ lease = {}
    /\ \E t \in Threads : \E u \in Threads \ {t} :
        /\ th[t].op = "unmap" /\ th[t].ret = "true"
        /\ th[u].op = "map" /\ th[u].ret = "AlreadyMapped"

\* C14: as the doc comments of map, write_bytes and read_bytes say, a map
\* (called directly or through write_bytes / read_bytes) on a block that
\* is currently mapped panics.
MapOnMappedPanics ==
    [][\A t \in Threads :
        (/\ th[t].pc = "map"
         /\ Acts(t)
         /\ HasMappingPath
         /\ InBounds(th[t].offset, th[t].size)
         /\ mapped = MAPPING_STATE_MAPPED) =>
            th'[t].ret = "panic"]_vars

\* The changes of the mapping state the state machine allows.
LegalTransitions ==
    {<<MAPPING_STATE_UNMAPPED, MAPPING_STATE_MAPPING>>,
     <<MAPPING_STATE_MAPPING, MAPPING_STATE_MAPPED>>,
     <<MAPPING_STATE_MAPPING, MAPPING_STATE_UNMAPPED>>,
     <<MAPPING_STATE_MAPPED, MAPPING_STATE_UNMAPPING>>,
     <<MAPPING_STATE_UNMAPPING, MAPPING_STATE_UNMAPPED>>,
     <<MAPPING_STATE_UNMAPPED, MAPPING_STATE_MAPPED>>}

\* C15: under every interleaving of map, unmap, read_bytes and write_bytes
\* the mapping state changes only by Unmapped->Mapping, Mapping->Mapped,
\* Mapping->Unmapped, Mapped->Unmapping, Unmapping->Unmapped or
\* Unmapped->Mapped; a Dedicated block never goes from Unmapped straight to
\* Mapped, and a Linear/Buddy block never enters Mapping.
LegalTransitionsOnly ==
    [][mapped' # mapped =>
        /\ <<mapped, mapped'>> \in LegalTransitions
        /\ block.flavor.kind = "Dedicated" =>
              <<mapped, mapped'>>
                 # <<MAPPING_STATE_UNMAPPED, MAPPING_STATE_MAPPED>>
        /\ block.flavor.kind # "Dedicated" =>
              mapped' # MAPPING_STATE_MAPPING]_vars

\* On a Dedicated block one thread's map came back with the device's error
\* and another thread has unmapped a mapping.
TransitionsTaken ==
    /\ block.flavor.kind = "Dedicated"
    /\ \E t \in Threads : \E u \in Threads \ {t} :
        /\ th[t].pc = "idle" /\ th[t].op = "map"
        /\ th[t].ret \in DeviceErrors
        /\ th[u].pc = "idle" /\ th[u].op = "unmap" /\ th[u].ret = "true"

\* The threads that have claimed the state for a device call and have not
\* made the call yet.
InFlight == {t \in Threads : th[t].pc \in {"map_memory", "unmap_memory"}}

\* C16: on a Dedicated block at most one map_memory or unmap_memory call
\* is in flight at any time, a map_memory only in state Mapping and an
\* unmap_memory only in state Unmapping; map_memory is never issued while
\* the memory is device-mapped and unmap_memory only while it is.  A
\* Linear/Buddy block issues neither call.
DeviceCallsSerialized ==
    /\ [](/\ Cardinality(InFlight) <= 1
          /\ \A t \in Threads :
              /\ th[t].pc = "map_memory" => mapped = MAPPING_STATE_MAPPING
              /\ th[t].pc = "unmap_memory" =>
                    mapped = MAPPING_STATE_UNMAPPING
          /\ block.flavor.kind # "Dedicated" =>
              /\ InFlight = {}
              /\ ~dev_mapped
              /\ \A t \in Threads :
                    ~Took(th[t], "map_memory") /\ ~Took(th[t], "unmap_memory"))
    /\ [][\A t \in Threads :
            /\ (th[t].pc = "map_memory" /\ Acts(t)) => ~dev_mapped
            /\ (th[t].pc = "unmap_memory" /\ Acts(t)) =>
                  dev_mapped /\ ~dev_mapped']_vars

\* A second round: one thread is about to call map_memory after another
\* thread's unmap has gone through unmap_memory.
SecondMapInFlight ==
    /\ ~dev_mapped
    /\ \E t \in Threads : \E u \in Threads \ {t} :
        /\ th[t].pc = "map_memory"
        /\ th[u].pc = "idle" /\ th[u].op = "unmap" /\ th[u].ret = "true"
        /\ Took(th[u], "unmap_memory")

\* C17: the debug assertions of the completion transitions hold under
\* every interleaving: the state is Mapping whenever end_mapping or
\* mapping_failed runs and Unmapping whenever end_unmapping runs.
AssertionsHold ==
    [][\A t \in Threads :
        Acts(t) =>
            /\ th[t].pc \in {"end_mapping", "mapping_failed"} =>
                  mapped = MAPPING_STATE_MAPPING
            /\ th[t].pc = "end_unmapping" =>
                  mapped = MAPPING_STATE_UNMAPPING]_vars

\* A write_bytes and a read_bytes on a Dedicated block have both run
\* through all three completion transitions between them.
CompletionsRun ==
    /\ block.flavor.kind = "Dedicated"
    /\ \E t \in Threads : \E u \in Threads \ {t} :
        /\ th[t].pc = "idle" /\ th[t].op = "write_bytes"
        /\ Took(th[t], "end_mapping") /\ Took(th[t], "end_unmapping")
        /\ th[u].pc = "idle" /\ th[u].op = "read_bytes"
        /\ Took(th[u], "mapping_failed")

\* The errors a failed map hands to write_bytes / read_bytes.
MapFailures ==
    {"AlreadyMapped", "NonHostVisible"}
    \cup DeviceErrors

Between ==
    {t \in Threads :
        th[t].pc \in {"copy", "flush_memory_ranges",
                      "invalidate_memory_ranges", "unmap", "unmap_memory",
                      "end_unmapping"}}

\* C19: when the threads call only read_bytes and write_bytes, at most
\* one call is between its successful map and the end of its unmap, the
\* state is Mapped through its copy and flush / invalidate up to its
\* unmap, its own unmap returns true, and the block is Unmapped once every
\* call has returned.
TransientCallsExclusive ==
    /\ Cardinality(Between) <= 1
    /\ \A t \in Threads :
        /\ th[t].pc \in {"copy", "flush_memory_ranges",
                         "invalidate_memory_ranges", "unmap"} =>
              mapped = MAPPING_STATE_MAPPED
        /\ (th[t].pc = "idle" /\ th[t].ptr = "Some") =>
              th[t].steps[Len(th[t].steps)] = "end_unmapping"
    /\ (\A t \in Threads : th[t].pc = "idle") =>
          mapped = MAPPING_STATE_UNMAPPED

\* One write_bytes is at its flush while the write_bytes of another thread
\* has come back with AlreadyMapped.
TransientCallContended ==
    \E t \in Threads : \E u \in Threads \ {t} :
        /\ th[t].pc = "flush_memory_ranges"
        /\ th[u].pc = "idle" /\ th[u].op = "write_bytes"
        /\ th[u].ret = "AlreadyMapped"

\* C20: on a Dedicated block every range passed to map_memory,
\* flush_memory_ranges or invalidate_memory_ranges for in-bounds
\* (offset, size) lies inside the block's own byte range
\* [block.offset, block.offset + block.size).
RangesInsideBlock ==
    block.flavor.kind = "Dedicated" =>
        \A t \in Threads : \A k \in 1..Len(th[t].ranges) :
            /\ block.offset <= th[t].ranges[k].offset
            /\ th[t].ranges[k].offset + th[t].ranges[k].size
                  <= block.offset + block.size

====
